---- MODULE Spec2Model ----
(***************************************************************************)
(* FIFO lot matching of the crypto portfolio viewer: app.py (the Streamlit *)
(* application) and visualizer.py (the command line script).               *)
(*                                                                         *)
(* Strings are sequences of one-character strings.  Floats are records     *)
(* [nan, v]: either the not-a-number value or an integer v (the model      *)
(* carries whole numbers only, so no rounding takes place).                *)
(***************************************************************************)
EXTENDS Integers, Sequences, FiniteSets, TLC

\* ------------------------------------------------------------------ bounds
MaxTrades == 3
MaxPrice == 1
MaxAmount == 2
MaxDate == 2
MaxManual == 1
MaxTokens == 3

\* ----------------------------------------------------------------- strings
EUR == <<"E", "U", "R">>
USDT == <<"U", "S", "D", "T">>
FDUSD == <<"F", "D", "U", "S", "D">>
UNKNOWN == <<"U", "N", "K", "N", "O", "W", "N">>

quote_currencies == <<EUR, USDT, FDUSD>>

\* str.endswith
endswith(s, suffix) ==
    /\ Len(suffix) <= Len(s)
    /\ SubSeq(s, Len(s) - Len(suffix) + 1, Len(s)) = suffix

\* str.replace(old, ''): every non-overlapping occurrence of old, scanning
\* from the left, is removed.
RECURSIVE replace(_, _)
replace(s, old) ==
    IF Len(s) < Len(old) THEN s
    ELSE IF SubSeq(s, 1, Len(old)) = old
         THEN replace(SubSeq(s, Len(old) + 1, Len(s)), old)
         ELSE <<Head(s)>> \o replace(Tail(s), old)

\* the first entry of quote_currencies, from index k on, that pair ends with
RECURSIVE FirstQuote(_, _)
FirstQuote(pair, k) ==
    IF k > Len(quote_currencies) THEN UNKNOWN
    ELSE IF endswith(pair, quote_currencies[k]) THEN quote_currencies[k]
         ELSE FirstQuote(pair, k + 1)

\* app.py get_quote_currency
get_quote_currency(pair) == FirstQuote(pair, 1)

\* app.py get_base_currency (lenient: the whole pair when no quote is known)
get_base_currency(pair) ==
    LET quote == get_quote_currency(pair)
    IN  IF quote # UNKNOWN THEN replace(pair, quote) ELSE pair

\* get_base_currency of visualizer.py never reaching its raise
vis_raises_Never(pair) == FALSE

\* visualizer.py get_base_currency raises ValueError when no quote is known
vis_raises(pair) == \A k \in 1..Len(quote_currencies) : ~endswith(pair, quote_currencies[k])

\* visualizer.py get_base_currency, where it returns
vis_get_base_currency(pair) == replace(pair, FirstQuote(pair, 1))

\* ------------------------------------------------------------------ floats
NaN == [nan |-> TRUE, v |-> 0]
F(n) == [nan |-> FALSE, v |-> n]

FSub(a, b) == IF a.nan \/ b.nan THEN NaN ELSE F(a.v - b.v)
FMul(a, b) == IF a.nan \/ b.nan THEN NaN ELSE F(a.v * b.v)
FAdd(a, b) == IF a.nan \/ b.nan THEN NaN ELSE F(a.v + b.v)
\* comparisons with NaN are False
FLe(a, b) == ~a.nan /\ ~b.nan /\ a.v <= b.v
FGt(a, b) == ~a.nan /\ ~b.nan /\ a.v > b.v
FLt(a, b) == ~a.nan /\ ~b.nan /\ a.v < b.v

\* ------------------------------------------------------------- quotients
\* The float a division yields, kept exact: num / den in lowest terms with
\* den > 0, or the not-a-number value.
QNaN == [nan |-> TRUE, num |-> 0, den |-> 1]

Abs(n) == IF n < 0 THEN -n ELSE n

RECURSIVE Gcd(_, _)
Gcd(a, b) == IF b = 0 THEN a ELSE Gcd(b, a % b)

\* n / d for d # 0
Q(n, d) ==
    LET g == Gcd(Abs(n), Abs(d))
        sgn == IF d < 0 THEN -1 ELSE 1
    IN  [nan |-> FALSE, num |-> sgn * (n \div g), den |-> Abs(d) \div g]

\* a float of the model read as a quotient
QOf(a) == IF a.nan THEN QNaN ELSE Q(a.v, 1)

QAdd(a, b) ==
    IF a.nan \/ b.nan THEN QNaN ELSE Q(a.num * b.den + b.num * a.den, a.den * b.den)

\* a / b * 100 for b # 0
QPercent(a, b) ==
    IF a.nan \/ b.nan THEN QNaN ELSE Q(a.num * b.den * 100, a.den * b.num)

\* Series.sum(): NaN entries are skipped, the sum of none is 0
RECURSIVE QSum(_)
QSum(xs) ==
    IF xs = <<>> THEN Q(0, 1)
    ELSE IF Head(xs).nan THEN QSum(Tail(xs))
         ELSE QAdd(Head(xs), QSum(Tail(xs)))

\* Series.count(): the entries that are not NaN
QCount(xs) == Cardinality({k \in 1..Len(xs) : ~xs[k].nan})

\* Series.mean(): the mean of the entries that are not NaN, NaN when there
\* is none
QMean(xs) ==
    IF QCount(xs) = 0 THEN QNaN
    ELSE Q(QSum(xs).num, QSum(xs).den * QCount(xs))

\* cumsum handing back the column as it is
cumsum_Values(xs) == xs

\* Series.cumsum(): NaN entries are skipped by the running sum and stay NaN
\* in the result
cumsum(xs) ==
    [k \in 1..Len(xs) |-> IF xs[k].nan THEN QNaN ELSE QSum(SubSeq(xs, 1, k))]

\* --------------------------------------------------------------- calendar
\* Date(UTC) values are counted in months: date d falls in month d.
MonthsPerQuarter == 3
MonthsPerYear == 12

\* Series.dt.to_period('M'), .dt.to_period('Q'), .dt.year
to_period_M(date) == date
to_period_Q(date) == (date - 1) \div MonthsPerQuarter
year(date) == (date - 1) \div MonthsPerYear

\* ----------------------------------------------------- numeric extraction
DigitChars == <<"0", "1", "2", "3", "4", "5", "6", "7", "8", "9">>
IsDigit(c) == \E d \in 1..Len(DigitChars) : DigitChars[d] = c
DigitVal(c) == (CHOOSE d \in 1..Len(DigitChars) : DigitChars[d] = c) - 1

\* str(n) of a whole number
RECURSIVE Digits(_)
Digits(n) == IF n < Len(DigitChars) THEN <<DigitChars[n + 1]>>
             ELSE Digits(n \div Len(DigitChars)) \o <<DigitChars[(n % Len(DigitChars)) + 1]>>

\* the longest run of digits s starts with: \d+
RECURSIVE DigitRun(_)
DigitRun(s) == IF s # <<>> /\ IsDigit(Head(s)) THEN <<Head(s)>> \o DigitRun(Tail(s)) ELSE <<>>

RECURSIVE IntOf(_, _)
IntOf(ds, acc) == IF ds = <<>> THEN acc
                  ELSE IntOf(Tail(ds), acc * Len(DigitChars) + DigitVal(Head(ds)))

\* .str.extract(r'(\d+\.\d+|\d+)').astype(float): the first numeric token
\* anywhere in the field, NaN when the field has none.  The fields of this
\* model carry no '.', so the token is always the \d+ alternative.
RECURSIVE extract(_)
extract(s) ==
    IF s = <<>> THEN NaN
    ELSE IF IsDigit(Head(s)) THEN F(IntOf(DigitRun(s), 0))
         ELSE extract(Tail(s))

\* ------------------------------------------------------------- input rows
BTCEUR == <<"B", "T", "C">> \o EUR
ETHUSDT == <<"E", "T", "H">> \o USDT
XRP == <<"X", "R", "P">>
Sides == {"BUY", "SELL"}
Unit == <<"B", "T", "C">>

\* the Executed column as exported: a count followed by the asset's unit,
\* or a field with no numeric token at all
RawExecuted == {Digits(n) \o Unit : n \in 0..MaxAmount} \cup {Unit}

\* the Amount column as exported: Price * Executed followed by the quote
RawAmount(price, executed) ==
    LET e == extract(executed)
    IN  IF e.nan THEN EUR ELSE Digits(price * e.v) \o EUR

RawRow(p, s, pr, ex, d) ==
    [Pair |-> p, Side |-> s, Price |-> pr, Executed |-> ex,
     Amount |-> RawAmount(pr, ex), Date |-> d]

\* The rows a file is made of.  Trades of BTCEUR take every side, price,
\* executed field and date; trades of a second asset (ETHUSDT) and of a pair
\* with no known quote currency (XRP) move one unit at the highest price.
RawRows ==
    {RawRow(BTCEUR, s, pr, ex, d) :
        s \in Sides, pr \in 0..MaxPrice, ex \in RawExecuted, d \in 1..MaxDate}
    \cup {RawRow(p, s, MaxPrice, Digits(1) \o Unit, d) :
        p \in {ETHUSDT, XRP}, s \in Sides, d \in 1..MaxDate}

Scripts == {"app", "visualizer"}

VARIABLES
    script,                     \* which of the two programs is run
    df,                         \* the DataFrame of trades
    pc,                         \* position in process_orders / main
    idx,                        \* the row df.iterrows() is at
    open_positions,             \* base currency -> list of open lots
    closed_positions,           \* list of closed lots
    orphan_sell_orders,         \* SELL rows that found no open lot
    manual_missing_operations,  \* st.session_state.manual_missing_operations
    stats,                      \* result of calculate_statistics
    time_column,                \* column the time period selected maps to
    profit_column,              \* column the profit type selected maps to
    profit_summary,             \* time bucket -> Sum and Mean of profit_column
    monthly_grouped             \* month -> row of plot_monthly_percentage_bar

\* what main shows below the statistics
shown == <<time_column, profit_column, profit_summary, monthly_grouped>>

vars == <<script, df, pc, idx, open_positions, closed_positions,
          orphan_sell_orders, manual_missing_operations, stats, shown>>

Init ==
    /\ script \in Scripts
    /\ df \in UNION {[1..n -> RawRows] : n \in 0..MaxTrades}
    /\ pc = "start"
    /\ idx = 0
    /\ open_positions = <<>>
    /\ closed_positions = <<>>
    /\ orphan_sell_orders = <<>>
    /\ manual_missing_operations = <<>>
    /\ stats = <<>>
    /\ time_column = ""
    /\ profit_column = ""
    /\ profit_summary = <<>>
    /\ monthly_grouped = <<>>

\* --------------------------------------------------------- process_orders
\* app.py 57-62: the column conversions of one row
app_convert(row) ==
    [Pair |-> row.Pair, Side |-> row.Side, Price |-> F(row.Price),
     Executed |-> extract(row.Executed), Amount |-> extract(row.Amount),
     Date |-> row.Date,
     Quote_Currency |-> get_quote_currency(row.Pair),
     Base_Currency |-> get_base_currency(row.Pair)]

\* visualizer.py 35-39: the column conversions of one row
vis_convert(row) ==
    [Pair |-> row.Pair, Side |-> row.Side, Price |-> F(row.Price),
     Executed |-> extract(row.Executed), Amount |-> extract(row.Amount),
     Date |-> row.Date,
     Base_Currency |-> vis_get_base_currency(row.Pair)]

\* app.py 57-62
ConvertColumns ==
    /\ pc = "start"
    /\ script = "app"
    /\ df' = [k \in 1..Len(df) |-> app_convert(df[k])]
    /\ pc' = "converted"
    /\ UNCHANGED <<script, idx, open_positions, closed_positions,
                   orphan_sell_orders, manual_missing_operations, stats, shown>>

\* visualizer.py 35-39, every pair ending in a known quote currency
VisConvertColumns ==
    /\ pc = "start"
    /\ script = "visualizer"
    /\ \A k \in 1..Len(df) : ~vis_raises(df[k].Pair)
    /\ df' = [k \in 1..Len(df) |-> vis_convert(df[k])]
    /\ pc' = "converted"
    /\ UNCHANGED <<script, idx, open_positions, closed_positions,
                   orphan_sell_orders, manual_missing_operations, stats, shown>>

\* visualizer.py 39, 27: get_base_currency raises ValueError on some pair;
\* main (146-147) reports the error and the run ends
VisConvertRaise ==
    /\ pc = "start"
    /\ script = "visualizer"
    /\ \E k \in 1..Len(df) : vis_raises(df[k].Pair)
    /\ pc' = "error"
    /\ UNCHANGED <<script, df, idx, open_positions, closed_positions,
                   orphan_sell_orders, manual_missing_operations, stats, shown>>

\* the orders of the rows of d that are ascending by Date
Injective(f) == \A a, b \in DOMAIN f : f[a] = f[b] => a = b
AscendingOrders(d) ==
    {f \in [1..Len(d) -> 1..Len(d)] :
        /\ Injective(f)
        /\ \A a, b \in 1..Len(d) : a < b => d[f[a]].Date <= d[f[b]].Date}

\* sort_values leaving the rows in the order of the file
sort_values_None(d) == {d}

\* DataFrame.sort_values(by='Date(UTC)') with the default kind='quicksort',
\* which pandas documents as not stable: rows of equal Date come out in any
\* order.
sort_values(d) == {[k \in 1..Len(d) |-> d[f[k]]] : f \in AscendingOrders(d)}

\* app.py 65, visualizer.py 42
SortValues ==
    /\ pc = "converted"
    /\ df' \in sort_values(df)
    /\ pc' = "loop"
    /\ idx' = 1
    /\ UNCHANGED <<script, open_positions, closed_positions,
                   orphan_sell_orders, manual_missing_operations, stats, shown>>

\* dict lookup with the list of a missing key read as empty
Queue(op, base) == IF base \in DOMAIN op THEN op[base] ELSE <<>>

\* SetQueue keeping one list for all assets: the write drops every other key
SetQueue_Only(op, base, q) == [b \in {base} |-> q]

\* open_positions[base] = q
SetQueue(op, base, q) ==
    [b \in DOMAIN op \cup {base} |-> IF b = base THEN q ELSE op[b]]

\* app.py 100-108, 114-122.  visualizer.py 73-84, 94-105 adds the quote
\* currencies and the percentage to the record.
ClosedLot(base, open_order, price, date, closed_amount) ==
    [Base_Currency |-> base,
     Open_Price |-> open_order.price,
     Close_Price |-> price,
     Amount |-> closed_amount,
     Open_Date |-> open_order.date,
     Close_Date |-> date,
     Profit_Loss_USDT |-> FMul(closed_amount, FSub(price, open_order.price))]

\* Consume taking the newest lot (the tail of the queue) instead of the head
RECURSIVE Consume_Last(_, _, _, _, _)
Consume_Last(q, rem, base, price, date) ==
    IF FGt(rem, F(0)) /\ q # <<>>
    THEN LET open_order == q[Len(q)]
             front == SubSeq(q, 1, Len(q) - 1)
             full == FLe(open_order.amount, rem)
             closed_amount == IF full THEN open_order.amount ELSE rem
             rest == IF full
                     THEN Consume_Last(front, FSub(rem, open_order.amount), base, price, date)
                     ELSE Consume_Last(front \o <<[open_order EXCEPT !.amount = FSub(@, rem)]>>,
                                       F(0), base, price, date)
         IN  [queue |-> rest.queue,
              closed |-> <<[Base_Currency |-> base,
                            Open_Price |-> open_order.price,
                            Close_Price |-> price,
                            Amount |-> closed_amount,
                            Open_Date |-> open_order.date,
                            Close_Date |-> date,
                            Profit_Loss_USDT |->
                                FMul(closed_amount, FSub(price, open_order.price))]>>
                            \o rest.closed,
              iterations |-> 1 + rest.iterations,
              zero_price |-> (open_order.price = F(0)) \/ rest.zero_price]
    ELSE [queue |-> q, closed |-> <<>>, iterations |-> 0, zero_price |-> FALSE]

\* Consume with the partial branch forgetting open_order['amount'] -= remaining_to_sell
RECURSIVE Consume_NoReduce(_, _, _, _, _)
Consume_NoReduce(q, rem, base, price, date) ==
    IF FGt(rem, F(0)) /\ q # <<>>
    THEN LET open_order == Head(q)
             full == FLe(open_order.amount, rem)
             closed_amount == IF full THEN open_order.amount ELSE rem
             rest == IF full
                     THEN Consume_NoReduce(Tail(q), FSub(rem, open_order.amount), base, price, date)
                     ELSE [queue |-> q, closed |-> <<>>, iterations |-> 0, zero_price |-> FALSE]
         IN  [queue |-> rest.queue,
              closed |-> <<[Base_Currency |-> base,
                            Open_Price |-> open_order.price,
                            Close_Price |-> price,
                            Amount |-> closed_amount,
                            Open_Date |-> open_order.date,
                            Close_Date |-> date,
                            Profit_Loss_USDT |->
                                FMul(closed_amount, FSub(price, open_order.price))]>>
                            \o rest.closed,
              iterations |-> 1 + rest.iterations,
              zero_price |-> (open_order.price = F(0)) \/ rest.zero_price]
    ELSE [queue |-> q, closed |-> <<>>, iterations |-> 0, zero_price |-> FALSE]

\* Consume closing at most one unit of the head lot in an iteration: a lot of
\* more than one unit stays at the head with one unit less
RECURSIVE Consume_ByUnit(_, _, _, _, _)
Consume_ByUnit(q, rem, base, price, date) ==
    IF FGt(rem, F(0)) /\ q # <<>>
    THEN LET open_order == Head(q)
             full == FLe(open_order.amount, rem) /\ FLe(open_order.amount, F(1))
             closed_amount == IF full THEN open_order.amount ELSE F(1)
             rest == IF full
                     THEN Consume_ByUnit(Tail(q), FSub(rem, open_order.amount),
                                         base, price, date)
                     ELSE Consume_ByUnit(<<[open_order EXCEPT !.amount = FSub(@, F(1))]>>
                                             \o Tail(q),
                                         FSub(rem, F(1)), base, price, date)
         IN  [queue |-> rest.queue,
              closed |-> <<[Base_Currency |-> base,
                            Open_Price |-> open_order.price,
                            Close_Price |-> price,
                            Amount |-> closed_amount,
                            Open_Date |-> open_order.date,
                            Close_Date |-> date,
                            Profit_Loss_USDT |->
                                FMul(closed_amount, FSub(price, open_order.price))]>>
                            \o rest.closed,
              iterations |-> 1 + rest.iterations,
              zero_price |-> (open_order.price = F(0)) \/ rest.zero_price]
    ELSE [queue |-> q, closed |-> <<>>, iterations |-> 0, zero_price |-> FALSE]

\* app.py 95-124, visualizer.py 66-109: the while loop of one SELL, from the
\* queue q with remaining_to_sell = rem.  closed: the lots it appends;
\* iterations: how often the body ran; zero_price: some iteration met an open
\* order of price 0 (visualizer.py 72, 93 divide by it).
RECURSIVE Consume(_, _, _, _, _)
Consume(q, rem, base, price, date) ==
    IF FGt(rem, F(0)) /\ q # <<>>
    THEN LET open_order == Head(q)
             full == FLe(open_order.amount, rem)
             closed_amount == IF full THEN open_order.amount ELSE rem
             rest == IF full
                     THEN Consume(Tail(q), FSub(rem, open_order.amount), base, price, date)
                     ELSE Consume(<<[open_order EXCEPT !.amount = FSub(@, rem)]>> \o Tail(q),
                                  F(0), base, price, date)
         IN  [queue |-> rest.queue,
              closed |-> <<ClosedLot(base, open_order, price, date, closed_amount)>>
                            \o rest.closed,
              iterations |-> 1 + rest.iterations,
              zero_price |-> (open_order.price = F(0)) \/ rest.zero_price]
    ELSE [queue |-> q, closed |-> <<>>, iterations |-> 0, zero_price |-> FALSE]

\* visualizer.py 72, 93: (price - open_order['price']) / open_order['price'] * 100,
\* for an open order whose price is not 0
profit_loss_percentage(price, open_price) ==
    QPercent(QOf(FSub(price, open_price)), QOf(open_price))

\* visualizer.py 73-84, 94-105: the closed lot with its 'Profit/Loss %'
vis_closed(lot) ==
    lot @@ ("Profit_Loss_Pct" :> profit_loss_percentage(lot.Close_Price, lot.Open_Price))

\* the closed lots a SELL appends, as the script at hand records them
Recorded(lots) ==
    IF script = "visualizer" THEN [k \in 1..Len(lots) |-> vis_closed(lots[k])] ELSE lots

Row == df[idx]
InLoop == pc = "loop" /\ idx <= Len(df)

\* app.py 78-86, visualizer.py 57-61 (which also notes the quote on the lot)
Buy ==
    /\ InLoop
    /\ Row.Side = "BUY"
    /\ open_positions' =
          SetQueue(open_positions, Row.Base_Currency,
                   Append(Queue(open_positions, Row.Base_Currency),
                          [price |-> Row.Price, amount |-> Row.Executed, date |-> Row.Date]))
    /\ idx' = idx + 1
    /\ UNCHANGED <<script, df, pc, closed_positions, orphan_sell_orders,
                   manual_missing_operations, stats, shown>>

\* OrphanSell without the guard of app.py 89: open_positions[base][0] raises
OrphanSell_Crash ==
    /\ InLoop
    /\ script = "app"
    /\ Row.Side = "SELL"
    /\ Queue(open_positions, Row.Base_Currency) = <<>>
    /\ pc' = "error"
    /\ UNCHANGED <<script, df, idx, open_positions, closed_positions,
                   orphan_sell_orders, manual_missing_operations, stats, shown>>

\* app.py 87-91
OrphanSell ==
    /\ InLoop
    /\ script = "app"
    /\ Row.Side = "SELL"
    /\ Queue(open_positions, Row.Base_Currency) = <<>>
    /\ orphan_sell_orders' = Append(orphan_sell_orders, Row)
    /\ idx' = idx + 1
    /\ UNCHANGED <<script, df, pc, open_positions, closed_positions,
                   manual_missing_operations, stats, shown>>

\* visualizer.py 62-64: a SELL with nothing open is passed over
VisSkipSell ==
    /\ InLoop
    /\ script = "visualizer"
    /\ Row.Side = "SELL"
    /\ Queue(open_positions, Row.Base_Currency) = <<>>
    /\ idx' = idx + 1
    /\ UNCHANGED <<script, df, pc, open_positions, closed_positions,
                   orphan_sell_orders, manual_missing_operations, stats, shown>>

\* Sell recording the SELL as an orphan when the queue ran out before the
\* amount did
Sell_ExcessOrphan ==
    /\ InLoop
    /\ Row.Side = "SELL"
    /\ Queue(open_positions, Row.Base_Currency) # <<>>
    /\ LET r == Consume(open_positions[Row.Base_Currency], Row.Executed,
                        Row.Base_Currency, Row.Price, Row.Date)
       IN  /\ script = "visualizer" => ~r.zero_price
           /\ open_positions' = SetQueue(open_positions, Row.Base_Currency, r.queue)
           /\ closed_positions' = closed_positions \o Recorded(r.closed)
           /\ orphan_sell_orders' =
                 IF r.queue = <<>> /\ r.iterations > 0
                 THEN Append(orphan_sell_orders, Row)
                 ELSE orphan_sell_orders
    /\ idx' = idx + 1
    /\ UNCHANGED <<script, df, pc, manual_missing_operations, stats, shown>>

\* app.py 93-124, visualizer.py 64-109 when no division by zero occurs
Sell ==
    /\ InLoop
    /\ Row.Side = "SELL"
    /\ Queue(open_positions, Row.Base_Currency) # <<>>
    /\ LET r == Consume(open_positions[Row.Base_Currency], Row.Executed,
                        Row.Base_Currency, Row.Price, Row.Date)
       IN  /\ script = "visualizer" => ~r.zero_price
           /\ open_positions' = SetQueue(open_positions, Row.Base_Currency, r.queue)
           /\ closed_positions' = closed_positions \o Recorded(r.closed)
    /\ idx' = idx + 1
    /\ UNCHANGED <<script, df, pc, orphan_sell_orders, manual_missing_operations,
                   stats, shown>>

\* visualizer.py 72, 93: (price - open_order['price']) / open_order['price']
\* on Python floats raises ZeroDivisionError for an open order of price 0;
\* main (146-147) reports the error and the run ends with no result
VisSellRaise ==
    /\ InLoop
    /\ script = "visualizer"
    /\ Row.Side = "SELL"
    /\ Queue(open_positions, Row.Base_Currency) # <<>>
    /\ Consume(open_positions[Row.Base_Currency], Row.Executed,
               Row.Base_Currency, Row.Price, Row.Date).zero_price
    /\ pc' = "error"
    /\ UNCHANGED <<script, df, idx, open_positions, closed_positions,
                   orphan_sell_orders, manual_missing_operations, stats, shown>>

\* app.py 67-124 as a function: the book, the closed lots and the orphans
\* after the loop has processed the rows 1..k of the sorted rows
RECURSIVE process_rows(_, _)
process_rows(rows, k) ==
    IF k = 0 THEN [open_positions |-> <<>>, closed_positions |-> <<>>,
                   orphan_sell_orders |-> <<>>]
    ELSE LET before == process_rows(rows, k - 1)
             row == rows[k]
             q == Queue(before.open_positions, row.Base_Currency)
             r == Consume(q, row.Executed, row.Base_Currency, row.Price, row.Date)
         IN  IF row.Side = "BUY"
             THEN [before EXCEPT !.open_positions =
                      SetQueue(@, row.Base_Currency,
                               Append(q, [price |-> row.Price, amount |-> row.Executed,
                                          date |-> row.Date]))]
             ELSE IF q = <<>>
                  THEN [before EXCEPT !.orphan_sell_orders = Append(@, row)]
                  ELSE [before EXCEPT
                           !.open_positions = SetQueue(@, row.Base_Currency, r.queue),
                           !.closed_positions = @ \o r.closed]

\* app.py 126-127, visualizer.py 111-123: the loop is over
Return ==
    /\ pc = "loop"
    /\ idx > Len(df)
    /\ pc' = IF script = "app" THEN "matched" ELSE "end"
    /\ UNCHANGED <<script, df, idx, open_positions, closed_positions,
                   orphan_sell_orders, manual_missing_operations, stats, shown>>

\* --------------------------------------------------------------- app main
\* SubmitMissingBuy with the profit taken as amount * (buy price - sell price)
SubmitMissingBuy_Swapped ==
    /\ pc = "matched"
    /\ Len(manual_missing_operations) < MaxManual
    /\ \E i \in 1..Len(orphan_sell_orders), missing_buy_price \in 0..MaxPrice,
          missing_buy_date \in 1..MaxDate :
          LET sell_order == orphan_sell_orders[i]
              manual_closed_op ==
                  [Base_Currency |-> sell_order.Base_Currency,
                   Open_Price |-> F(missing_buy_price),
                   Close_Price |-> sell_order.Price,
                   Amount |-> sell_order.Executed,
                   Open_Date |-> missing_buy_date,
                   Close_Date |-> sell_order.Date,
                   Profit_Loss_USDT |->
                       FMul(sell_order.Executed, FSub(F(missing_buy_price), sell_order.Price))]
          IN  manual_missing_operations' = Append(manual_missing_operations, manual_closed_op)
    /\ UNCHANGED <<script, df, pc, idx, open_positions, closed_positions,
                   orphan_sell_orders, stats, shown>>

\* SubmitMissingBuy putting the missing BUY into the book as an open lot
SubmitMissingBuy_Reopen ==
    /\ pc = "matched"
    /\ Len(manual_missing_operations) < MaxManual
    /\ \E i \in 1..Len(orphan_sell_orders), missing_buy_price \in 0..MaxPrice,
          missing_buy_date \in 1..MaxDate :
          LET sell_order == orphan_sell_orders[i]
          IN  /\ manual_missing_operations' =
                    Append(manual_missing_operations,
                           [Base_Currency |-> sell_order.Base_Currency,
                            Open_Price |-> F(missing_buy_price),
                            Close_Price |-> sell_order.Price,
                            Amount |-> sell_order.Executed,
                            Open_Date |-> missing_buy_date,
                            Close_Date |-> sell_order.Date,
                            Profit_Loss_USDT |->
                                FMul(sell_order.Executed,
                                     FSub(sell_order.Price, F(missing_buy_price)))])
              /\ open_positions' =
                    SetQueue(open_positions, sell_order.Base_Currency,
                             Append(Queue(open_positions, sell_order.Base_Currency),
                                    [price |-> F(missing_buy_price),
                                     amount |-> sell_order.Executed,
                                     date |-> missing_buy_date]))
    /\ UNCHANGED <<script, df, pc, idx, closed_positions, orphan_sell_orders,
                   stats, shown>>

\* app.py 273-286: the form of orphan SELL number i is submitted
SubmitMissingBuy ==
    /\ pc = "matched"
    /\ Len(manual_missing_operations) < MaxManual
    /\ \E i \in 1..Len(orphan_sell_orders), missing_buy_price \in 0..MaxPrice,
          missing_buy_date \in 1..MaxDate :
          LET sell_order == orphan_sell_orders[i]
              manual_closed_op ==
                  [Base_Currency |-> sell_order.Base_Currency,
                   Open_Price |-> F(missing_buy_price),
                   Close_Price |-> sell_order.Price,
                   Amount |-> sell_order.Executed,
                   Open_Date |-> missing_buy_date,
                   Close_Date |-> sell_order.Date,
                   Profit_Loss_USDT |->
                       FMul(sell_order.Executed, FSub(sell_order.Price, F(missing_buy_price)))]
          IN  manual_missing_operations' = Append(manual_missing_operations, manual_closed_op)
    /\ UNCHANGED <<script, df, pc, idx, open_positions, closed_positions,
                   orphan_sell_orders, stats, shown>>

\* Series.sum(): NaN entries are skipped
RECURSIVE SumPnL(_)
SumPnL(lots) ==
    IF lots = <<>> THEN 0
    ELSE (IF Head(lots).Profit_Loss_USDT.nan THEN 0 ELSE Head(lots).Profit_Loss_USDT.v)
         + SumPnL(Tail(lots))

\* app.py 163-164: Profit/Loss USDT / cost_basis.replace(0, nan) * 100
Profit_Loss_Pct(lot) ==
    LET cost_basis == FMul(lot.Open_Price, lot.Amount)
    IN  IF cost_basis.nan \/ cost_basis.v = 0 THEN QNaN
        ELSE QPercent(QOf(lot.Profit_Loss_USDT), QOf(cost_basis))

\* app.py 164, 180: the columns calculate_statistics sets on the DataFrame
\* it was handed
with_statistics_columns(closed_positions_df) ==
    [k \in 1..Len(closed_positions_df) |->
        closed_positions_df[k]
            @@ ("Profit_Loss_Pct" :> Profit_Loss_Pct(closed_positions_df[k]))
            @@ ("Month" :> to_period_M(closed_positions_df[k].Close_Date))]

\* the values of one column, as quotients
Column(closed_positions_df, name) ==
    [k \in 1..Len(closed_positions_df) |->
        IF name = "Profit_Loss_USDT" THEN QOf(closed_positions_df[k].Profit_Loss_USDT)
        ELSE closed_positions_df[k][name]]

\* app.py 146-184, on a DataFrame that is not empty: the stats dict
calculate_statistics(closed_positions_df) ==
    LET n == Len(closed_positions_df)
        with_columns == with_statistics_columns(closed_positions_df)
        winning_trades == {k \in 1..n : FGt(closed_positions_df[k].Profit_Loss_USDT, F(0))}
        losing_trades == {k \in 1..n : FLt(closed_positions_df[k].Profit_Loss_USDT, F(0))}
        months == {with_columns[k].Month : k \in 1..n}
    IN  [Total_Closed_Trades |-> n,
         Total_PnL |-> SumPnL(closed_positions_df),
         Winning_Trades |-> Cardinality(winning_trades),
         Losing_Trades |-> Cardinality(losing_trades),
         Win_Rate |-> Q(Cardinality(winning_trades) * 100, n),
         Average_PnL |-> QMean(Column(closed_positions_df, "Profit_Loss_USDT")),
         Average_PnL_Pct |-> QMean(Column(with_columns, "Profit_Loss_Pct")),
         Operations_per_Month |->
             [m \in months |-> Cardinality({k \in 1..n : with_columns[k].Month = m})]]

\* app.py 296-304: statistics of the closed positions process_orders returned;
\* the DataFrame comes back with the columns calculate_statistics set on it
CalculateStatistics ==
    /\ pc = "matched"
    /\ closed_positions # <<>>
    /\ stats' = calculate_statistics(closed_positions)
    /\ closed_positions' = with_statistics_columns(closed_positions)
    /\ pc' = "stats"
    /\ UNCHANGED <<script, df, idx, open_positions,
                   orphan_sell_orders, manual_missing_operations, shown>>

\* app.py 152-153, 296: on an empty DataFrame calculate_statistics returns the
\* empty dict alone, and unpacking it into two names raises ValueError
CalculateStatisticsRaise ==
    /\ pc = "matched"
    /\ closed_positions = <<>>
    /\ pc' = "error"
    /\ UNCHANGED <<script, df, idx, open_positions, closed_positions,
                   orphan_sell_orders, manual_missing_operations, stats, shown>>

\* the rows of d whose column name holds key
Group(d, name, key) == {k \in 1..Len(d) : d[k][name] = key}

\* the entries of xs at the rows of the set rows, in row order
RECURSIVE Take(_, _, _)
Take(xs, rows, k) ==
    IF k > Len(xs) THEN <<>>
    ELSE (IF k \in rows THEN <<xs[k]>> ELSE <<>>) \o Take(xs, rows, k + 1)

\* app.py 336-339: groupby(time_column)[profit_column].agg(['sum', 'mean']).
\* The 'std' column of the table is left out of the model.
groupby_agg(d, by, column) ==
    [key \in {d[k][by] : k \in 1..Len(d)} |->
        [Sum |-> QSum(Take(Column(d, column), Group(d, by, key), 1)),
         Mean |-> QMean(Take(Column(d, column), Group(d, by, key), 1))]]

\* app.py 187-210: plot_monthly_percentage_bar works on a copy of the
\* DataFrame; the result is the monthly_grouped table the bars are drawn from
plot_monthly_percentage_bar(closed_positions_df) ==
    LET n == Len(closed_positions_df)
        monthly_pnl_df ==
            [k \in 1..n |->
                closed_positions_df[k]
                    @@ ("Cost_Basis" :> FMul(closed_positions_df[k].Open_Price,
                                             closed_positions_df[k].Amount))]
        month(k) == to_period_M(monthly_pnl_df[k].Close_Date)
        rows(m) == {k \in 1..n : month(k) = m}
        pnl(m) == QSum(Take(Column(monthly_pnl_df, "Profit_Loss_USDT"), rows(m), 1))
        cost(m) == QSum(Take([k \in 1..n |-> QOf(monthly_pnl_df[k].Cost_Basis)], rows(m), 1))
    IN  [m \in {month(k) : k \in 1..n} |->
            [Profit_Loss_USDT |-> pnl(m),
             Cost_Basis |-> cost(m),
             Monthly_Profit_Pct |->
                 IF cost(m).num # 0 THEN QPercent(pnl(m), cost(m)) ELSE Q(0, 1)]]

\* app.py 308-363: the period columns, the summary table of the selected
\* period and profit type, the cumulative profit column and the monthly bars
ShowProfit ==
    /\ pc = "stats"
    /\ \E time_period \in {"Month", "Trimester", "Year"},
          profit_type \in {"Absolute", "Percentage"} :
          LET with_periods ==
                  [k \in 1..Len(closed_positions) |->
                      ("Month" :> to_period_M(closed_positions[k].Close_Date))
                      @@ ("Trimester" :> to_period_Q(closed_positions[k].Close_Date))
                      @@ ("Year" :> year(closed_positions[k].Close_Date))
                      @@ closed_positions[k]]
              column == IF profit_type = "Absolute"
                        THEN "Profit_Loss_USDT" ELSE "Profit_Loss_Pct"
              cumulative == cumsum(Column(with_periods, column))
              with_cumulative ==
                  [k \in 1..Len(with_periods) |->
                      with_periods[k] @@ ("Cumulative_Profit" :> cumulative[k])]
          IN  /\ time_column' = time_period
              /\ profit_column' = column
              /\ profit_summary' = groupby_agg(with_periods, time_period, column)
              /\ closed_positions' = with_cumulative
              /\ monthly_grouped' = plot_monthly_percentage_bar(with_cumulative)
    /\ pc' = "shown"
    /\ UNCHANGED <<script, df, idx, open_positions, orphan_sell_orders,
                   manual_missing_operations, stats>>

Next ==
    \/ ConvertColumns
    \/ VisConvertColumns
    \/ VisConvertRaise
    \/ SortValues
    \/ Buy
    \/ OrphanSell
    \/ VisSkipSell
    \/ Sell
    \/ VisSellRaise
    \/ Return
    \/ SubmitMissingBuy
    \/ CalculateStatistics
    \/ CalculateStatisticsRaise
    \/ ShowProfit

Spec == Init /\ [][Next]_vars

\* the statements of process_orders: conversions, sort, loop, return
process_orders ==
    \/ ConvertColumns
    \/ VisConvertColumns
    \/ VisConvertRaise
    \/ SortValues
    \/ Buy
    \/ OrphanSell
    \/ VisSkipSell
    \/ Sell
    \/ VisSellRaise
    \/ Return

\* A third family of input files, for the runs of process_orders to their
\* end: up to MaxTrades trades of one day, of BTCEUR with every side, price
\* and executed field, or of the pair with no known quote currency.
RunRows == {row \in RawRows : row.Date = 1 /\ row.Pair # ETHUSDT}

InitRun ==
    /\ script \in Scripts
    /\ df \in UNION {[1..n -> RunRows] : n \in 0..MaxTrades}
    /\ pc = "start"
    /\ idx = 0
    /\ open_positions = <<>>
    /\ closed_positions = <<>>
    /\ orphan_sell_orders = <<>>
    /\ manual_missing_operations = <<>>
    /\ stats = <<>>
    /\ time_column = ""
    /\ profit_column = ""
    /\ profit_summary = <<>>
    /\ monthly_grouped = <<>>

\* process_orders is straight-line code run by one thread: once called it
\* keeps executing its next statement.  Nothing obliges the user to submit a
\* form or the page to be drawn.
SpecRun == InitRun /\ [][Next]_vars /\ WF_vars(process_orders)

\* ------------------------------------------- pair symbols of every shape
\* A second family of input files, for the decomposition of pair symbols:
\* one BUY and one SELL, in either order, of a symbol assembled from up to
\* MaxTokens currency codes and letters.
Tokens == {EUR, USDT, FDUSD, <<"B">>, <<"F">>, <<"D">>, <<"U", "S">>}

RECURSIVE Concat(_)
Concat(ws) == IF ws = <<>> THEN <<>> ELSE Head(ws) \o Concat(Tail(ws))

PairSymbols == {Concat(ws) : ws \in UNION {[1..n -> Tokens] : n \in 1..MaxTokens}}

InitPair ==
    /\ script \in Scripts
    /\ \E p \in PairSymbols, pr \in 0..MaxPrice, first \in Sides :
          df = <<RawRow(p, first, pr, Digits(1) \o Unit, 1),
                 RawRow(p, CHOOSE sd \in Sides : sd # first, pr, Digits(1) \o Unit, 1)>>
    /\ pc = "start"
    /\ idx = 0
    /\ open_positions = <<>>
    /\ closed_positions = <<>>
    /\ orphan_sell_orders = <<>>
    /\ manual_missing_operations = <<>>
    /\ stats = <<>>
    /\ time_column = ""
    /\ profit_column = ""
    /\ profit_summary = <<>>
    /\ monthly_grouped = <<>>

SpecPair == InitPair /\ [][Next]_vars

\* ============================================================ properties
\* process_orders has returned
Finished == pc \in {"matched", "stats", "shown", "end"}

\* every Executed field of the converted DataFrame held a number
WellFormed == \A k \in 1..Len(df) : ~df[k].Executed.nan

Bases == {df[k].Base_Currency : k \in 1..Len(df)}

\* sum of the Executed amounts of the rows 1..k of the given side and base
RECURSIVE Traded(_, _, _)
Traded(side, base, k) ==
    IF k = 0 THEN 0
    ELSE Traded(side, base, k - 1)
         + (IF df[k].Side = side /\ df[k].Base_Currency = base THEN df[k].Executed.v ELSE 0)

\* no SELL asks for more than its asset has open when it arrives
NoOversell ==
    \A k \in 1..Len(df) :
        df[k].Side = "SELL" =>
            Traded("SELL", df[k].Base_Currency, k) <= Traded("BUY", df[k].Base_Currency, k - 1)

RECURSIVE SumAmount(_)
SumAmount(lots) == IF lots = <<>> THEN 0 ELSE Head(lots).amount.v + SumAmount(Tail(lots))

RECURSIVE SumClosed(_, _)
SumClosed(lots, base) ==
    IF lots = <<>> THEN 0
    ELSE (IF Head(lots).Base_Currency = base THEN Head(lots).Amount.v ELSE 0)
         + SumClosed(Tail(lots), base)

\* C1: amount conservation.  When process_orders has returned on trades whose
\* Executed fields are all numeric and none of whose SELLs asks for more than
\* its asset has open, then for every base asset the closed amounts plus the
\* amounts still open equal the amounts bought.
C1_Conservation ==
    (Finished /\ WellFormed /\ NoOversell) =>
        \A b \in Bases :
            SumClosed(closed_positions, b) + SumAmount(Queue(open_positions, b))
                = Traded("BUY", b, Len(df))

\* a finished run of C1's kind in which a SELL split a lot: part closed, part open
C1_Witness ==
    /\ Finished /\ WellFormed /\ NoOversell
    /\ orphan_sell_orders = <<>>
    /\ \E k \in 1..Len(closed_positions) :
          /\ closed_positions[k].Amount.v > 0
          /\ Queue(open_positions, closed_positions[k].Base_Currency) # <<>>
          /\ Head(Queue(open_positions, closed_positions[k].Base_Currency)).amount.v > 0

\* the closed lots a step appended
Emitted == SubSeq(closed_positions', Len(closed_positions) + 1, Len(closed_positions'))

\* C2: FIFO ordering.  The closed lots a SELL emits are taken from the front
\* of its asset's queue in queue order: the j-th carries the price and open
\* date of the j-th lot and the SELL's price and date, its profit is its
\* amount times (sell price - that lot's price), every lot before the last
\* one taken is taken whole, and the lots behind stay as they were.
C2_FIFO ==
    [][Len(closed_positions') > Len(closed_positions) =>
        LET b == Row.Base_Currency
            q == Queue(open_positions, b)
            q2 == Queue(open_positions', b)
            n == Len(Emitted)
        IN  /\ SubSeq(closed_positions', 1, Len(closed_positions)) = closed_positions
            /\ n \in 1..Len(q)
            /\ \A j \in 1..n :
                  /\ Emitted[j].Base_Currency = b
                  /\ Emitted[j].Open_Price = q[j].price
                  /\ Emitted[j].Open_Date = q[j].date
                  /\ Emitted[j].Close_Price = Row.Price
                  /\ Emitted[j].Close_Date = Row.Date
                  /\ Emitted[j].Profit_Loss_USDT
                        = FMul(Emitted[j].Amount, FSub(Row.Price, q[j].price))
                  /\ j < n => Emitted[j].Amount = q[j].amount
            /\ Len(q2) \in {Len(q) - n, Len(q) - n + 1}
            /\ \A j \in (n + 1)..Len(q) : q2[Len(q2) - (Len(q) - j)] = q[j]
    ]_vars

\* a SELL has just closed the older of two lots bought at different prices
C2_Witness ==
    /\ pc = "loop" /\ idx > 1 /\ df[idx - 1].Side = "SELL"
    /\ closed_positions # <<>>
    /\ LET c == closed_positions[Len(closed_positions)]
           q == Queue(open_positions, c.Base_Currency)
       IN  /\ c.Close_Date = df[idx - 1].Date
           /\ c.Amount.v > 0
           /\ q # <<>>
           /\ Head(q).price # c.Open_Price
           /\ Head(q).date >= c.Open_Date

\* a SELL row of app.py is about to be processed and lots of its asset are open
AppSellOnLots ==
    /\ InLoop /\ script = "app" /\ Row.Side = "SELL"
    /\ Queue(open_positions, Row.Base_Currency) # <<>>

\* the effect C3 describes: one closed lot of the SELL's amount, the head lot
\* reduced by it, everything else of the book as before
SplitsHead ==
    LET b == Row.Base_Currency
        q == open_positions[b]
    IN  /\ Len(Emitted) = 1
        /\ SubSeq(closed_positions', 1, Len(closed_positions)) = closed_positions
        /\ Emitted[1].Amount = Row.Executed
        /\ open_positions' =
              SetQueue(open_positions, b,
                       <<[price |-> Head(q).price,
                          amount |-> F(Head(q).amount.v - Row.Executed.v),
                          date |-> Head(q).date]>> \o Tail(q))

\* C3 as amended: in app.py a SELL of amount A > 0 on an asset whose head lot
\* has amount H > A emits exactly one closed lot of amount A, leaves the head
\* lot in the queue with amount H - A and its price and open date unchanged,
\* and leaves every other lot of the book unchanged.
C3_PartialSplit ==
    [][(AppSellOnLots /\ FGt(Row.Executed, F(0))
            /\ FGt(Head(open_positions[Row.Base_Currency]).amount, Row.Executed))
        => SplitsHead]_vars

\* C3 as claimed: the same for every SELL amount A, A = 0 included.
C3_PartialSplit_AnyAmount ==
    [][(AppSellOnLots
            /\ FGt(Head(open_positions[Row.Base_Currency]).amount, Row.Executed))
        => SplitsHead]_vars

\* a SELL has just taken part of a head lot that has a second lot behind it
C3_Witness ==
    /\ script = "app" /\ pc = "loop" /\ idx > 1 /\ df[idx - 1].Side = "SELL"
    /\ closed_positions # <<>>
    /\ LET c == closed_positions[Len(closed_positions)]
           q == Queue(open_positions, c.Base_Currency)
       IN  /\ c.Close_Date = df[idx - 1].Date
           /\ c.Amount = df[idx - 1].Executed
           /\ c.Amount.v > 0
           /\ Len(q) = 2
           /\ Head(q).amount.v > 0
           /\ Head(q).price = c.Open_Price /\ Head(q).date = c.Open_Date

\* C4: orphan detection.  In app.py a SELL processed while its base asset has
\* no open lot (queue empty or absent) adds exactly that row to the orphan
\* list, emits no closed lot, leaves the book unchanged, does not raise, and
\* the loop goes on to the next row.
C4_OrphanDetection ==
    [][(InLoop /\ script = "app" /\ Row.Side = "SELL"
            /\ Queue(open_positions, Row.Base_Currency) = <<>>)
        => /\ orphan_sell_orders' = Append(orphan_sell_orders, Row)
           /\ closed_positions' = closed_positions
           /\ open_positions' = open_positions
           /\ pc' = "loop"
           /\ idx' = idx + 1
    ]_vars

\* an orphan SELL was recorded and a later row has been processed after it
C4_Witness ==
    /\ script = "app" /\ pc = "loop" /\ idx > 2
    /\ orphan_sell_orders # <<>>
    /\ df[idx - 2] = orphan_sell_orders[Len(orphan_sell_orders)]
    /\ df[idx - 1].Side = "BUY"
    /\ open_positions # <<>>

\* C5: orphan resolution feeds statistics.  Once the statistics of a run have
\* been computed, every manual closed lot submitted in it is a member of
\* the closed-lot collection they were computed over.
C5_ManualLotInStatistics ==
    pc = "stats" =>
        \A m \in 1..Len(manual_missing_operations) :
            \E k \in 1..Len(closed_positions) :
                closed_positions[k] = manual_missing_operations[m]

\* float sum of the amounts of open lots
RECURSIVE FSumAmount(_)
FSumAmount(lots) ==
    IF lots = <<>> THEN F(0) ELSE FAdd(Head(lots).amount, FSumAmount(Tail(lots)))

\* C6: oversell.  In app.py a SELL whose amount exceeds the total amount of
\* the open lots of its asset (queue not empty) does not fail: it emits one
\* closed lot per open lot, each with that lot's full amount, the queue ends
\* empty, no orphan record is added, and the loop goes on.
C6_Oversell ==
    [][(AppSellOnLots
            /\ FGt(Row.Executed, FSumAmount(open_positions[Row.Base_Currency])))
        => LET b == Row.Base_Currency
               q == open_positions[b]
           IN  /\ Len(Emitted) = Len(q)
               /\ SubSeq(closed_positions', 1, Len(closed_positions)) = closed_positions
               /\ \A j \in 1..Len(q) :
                     /\ Emitted[j].Amount = q[j].amount
                     /\ Emitted[j].Open_Price = q[j].price
                     /\ Emitted[j].Open_Date = q[j].date
               /\ Queue(open_positions', b) = <<>>
               /\ orphan_sell_orders' = orphan_sell_orders
               /\ pc' = "loop"
               /\ idx' = idx + 1
    ]_vars

\* two BUYs, then a SELL of more than both lots hold: both closed whole
C6_Witness ==
    /\ script = "app" /\ pc = "loop" /\ idx = 4
    /\ df[3].Side = "SELL"
    /\ Len(closed_positions) = 2
    /\ \A k \in 1..2 : closed_positions[k].Base_Currency = df[3].Base_Currency
    /\ closed_positions[1].Amount.v + closed_positions[2].Amount.v > 0
    /\ df[3].Executed.v > closed_positions[1].Amount.v + closed_positions[2].Amount.v
    /\ Queue(open_positions, df[3].Base_Currency) = <<>>
    /\ orphan_sell_orders = <<>>

\* C7: empty input.  A run of app.py whose closed-lot collection is empty does
\* not fail in the statistics step.
C7_EmptyDoesNotFail ==
    (script = "app" /\ closed_positions = <<>>) => pc # "error"

\* the columns of df have been converted
DfConverted == pc = "converted" \/ idx > 0

\* some Executed or Amount field of the file held no numeric token
Malformed == \E k \in 1..Len(df) : df[k].Executed.nan \/ df[k].Amount.nan

\* C8: fail fast on malformed fields.  In a run over a file one of whose
\* Executed or Amount fields holds no numeric token no BUY is pushed, no SELL
\* is consumed or recorded, and process_orders returns no result.
C8_FailFast ==
    (DfConverted /\ Malformed) =>
        /\ open_positions = <<>>
        /\ closed_positions = <<>>
        /\ orphan_sell_orders = <<>>
        /\ ~Finished

\* the one ascending order that keeps rows of equal Date in input order
StableOrder(d) ==
    CHOOSE f \in AscendingOrders(d) :
        \A a, b \in 1..Len(d) : (a < b /\ d[f[a]].Date = d[f[b]].Date) => f[a] < f[b]

\* C9: stable chronological order.  The sort hands the matching loop the rows
\* ascending by Date, rows of equal Date in their input order.
C9_StableOrder ==
    [][(pc = "converted" /\ pc' = "loop")
        => df' = [k \in 1..Len(df) |-> df[StableOrder(df)[k]]]]_vars

\* the first entry of quote_currencies that pair ends with
FirstSuffix(pair) ==
    quote_currencies[CHOOSE k \in 1..Len(quote_currencies) :
        /\ endswith(pair, quote_currencies[k])
        /\ \A j \in 1..(k - 1) : ~endswith(pair, quote_currencies[j])]

\* C10: pair decomposition.  For every row whose pair ends in a known quote
\* currency, the quote currency is the first entry of the list that is a
\* suffix of the pair, and the base asset followed by it is the pair.
C10_PairDecomposition ==
    DfConverted =>
        \A k \in 1..Len(df) :
            ~vis_raises(df[k].Pair) =>
                /\ script = "app" => df[k].Quote_Currency = FirstSuffix(df[k].Pair)
                /\ df[k].Base_Currency \o FirstSuffix(df[k].Pair) = df[k].Pair

\* the closed lots whose cost basis, Open Price * Amount, is 0
ZeroCost(lot) == FMul(lot.Open_Price, lot.Amount) = F(0)

\* the closed lots that have their percentage return computed
HasPct(lot) == "Profit_Loss_Pct" \in DOMAIN lot

\* C11: zero-cost-basis guard.  Computing the percentage return of a closed
\* lot never makes the run fail; every closed lot whose Open Price * Amount is
\* 0 has the undefined value as its percentage return; and the mean percentage
\* return of the statistics is the mean over the lots whose return is defined.
C11_ZeroCostBasisGuard ==
    /\ ~(script = "visualizer" /\ pc = "error" /\ idx > 0)
    /\ \A k \in 1..Len(closed_positions) :
          (HasPct(closed_positions[k]) /\ ZeroCost(closed_positions[k]))
              => closed_positions[k].Profit_Loss_Pct.nan
    /\ pc \in {"stats", "shown"} =>
          LET defined == {k \in 1..Len(closed_positions) : ~ZeroCost(closed_positions[k])}
              total == QSum(Take(Column(closed_positions, "Profit_Loss_Pct"), defined, 1))
          IN  stats.Average_PnL_Pct =
                  IF defined = {} THEN QNaN
                  ELSE Q(total.num, total.den * Cardinality(defined))

\* the closed lots whose Close Date falls in month m
LotsOfMonth(m) == {k \in 1..Len(closed_positions) : closed_positions[k].Close_Date = m}

RECURSIVE SumOver(_, _)
SumOver(rows, f) ==
    IF rows = {} THEN 0
    ELSE LET k == CHOOSE j \in rows : TRUE
         IN  f[k] + SumOver(rows \ {k}, f)

\* x is sum(Profit/Loss USDT) / sum(Open Price * Amount) * 100 over the closed
\* lots of month m, and 0 when that sum of cost bases is 0
IsWeighted(x, m) ==
    LET pnl == SumOver(LotsOfMonth(m),
                       [k \in 1..Len(closed_positions) |->
                           closed_positions[k].Profit_Loss_USDT.v])
        cost == SumOver(LotsOfMonth(m),
                        [k \in 1..Len(closed_positions) |->
                            closed_positions[k].Open_Price.v * closed_positions[k].Amount.v])
    IN  /\ ~x.nan
        /\ IF cost = 0 THEN x.num = 0 ELSE x.num * cost = 100 * pnl * x.den

\* C12: weighted monthly percentage.  Every monthly percentage profit the
\* application shows is the ratio of sums of its month: the bar of the
\* monthly bar plot, and, when the summary table is shown by Month for the
\* Percentage profit type, a figure of the table's row.
C12_WeightedMonthly ==
    pc = "shown" =>
        \A m \in {closed_positions[k].Close_Date : k \in 1..Len(closed_positions)} :
            /\ IsWeighted(monthly_grouped[m].Monthly_Profit_Pct, m)
            /\ (time_column = "Month" /\ profit_column = "Profit_Loss_Pct") =>
                  \/ IsWeighted(profit_summary[m].Sum, m)
                  \/ IsWeighted(profit_summary[m].Mean, m)

\* the manual closed lot a step appended
Submitted == manual_missing_operations'[Len(manual_missing_operations')]

\* C13: orphan resolution result.  A submission of missing BUY data yields a
\* manual closed lot for one of the orphan SELLs: its amount is the orphan's
\* executed amount, its close price and close date are the orphan's, its open
\* price is a price >= 0, and its profit is amount * (close price - open
\* price).
C13_ResolutionResult ==
    [][manual_missing_operations' # manual_missing_operations =>
        \E i \in 1..Len(orphan_sell_orders) :
            /\ Submitted.Base_Currency = orphan_sell_orders[i].Base_Currency
            /\ Submitted.Amount = orphan_sell_orders[i].Executed
            /\ Submitted.Close_Price = orphan_sell_orders[i].Price
            /\ Submitted.Close_Date = orphan_sell_orders[i].Date
            /\ ~Submitted.Open_Price.nan /\ Submitted.Open_Price.v >= 0
            /\ Submitted.Profit_Loss_USDT =
                  IF Submitted.Amount.nan THEN NaN
                  ELSE F(Submitted.Amount.v
                         * (Submitted.Close_Price.v - Submitted.Open_Price.v))
    ]_vars

\* an orphan SELL of a positive amount was resolved with a BUY price below
\* its own price: the manual lot shows a profit
C13_Witness ==
    /\ Len(manual_missing_operations) = 1
    /\ LET m == manual_missing_operations[1]
       IN  /\ m.Amount.v = MaxAmount
           /\ m.Open_Price.v < m.Close_Price.v
           /\ m.Profit_Loss_USDT.v = MaxAmount * (m.Close_Price.v - m.Open_Price.v)
           /\ \E i \in 1..Len(orphan_sell_orders) : orphan_sell_orders[i].Executed = m.Amount

\* pair ends in none of EUR, USDT, FDUSD
NoKnownQuote(pair) ==
    \A q \in {EUR, USDT, FDUSD} :
        Len(q) > Len(pair) \/ SubSeq(pair, Len(pair) - Len(q) + 1, Len(pair)) # q

\* C14: unresolvable pairs.  app.py converts every file: a pair ending in no
\* known quote currency gets the quote currency UNKNOWN and the whole symbol
\* as its base asset, and no step before the statistics fails.  visualizer.py
\* on a file holding such a pair fails at the conversion, with no row
\* processed, nothing opened and nothing closed.
C14_UnresolvablePairs ==
    [][/\ (pc = "start" /\ script = "app") =>
              /\ pc' = "converted"
              /\ \A k \in 1..Len(df) :
                    NoKnownQuote(df[k].Pair) =>
                        /\ df'[k].Quote_Currency = UNKNOWN
                        /\ df'[k].Base_Currency = df[k].Pair
       /\ (script = "app" /\ pc' = "error") => pc = "matched"
       /\ (pc = "start" /\ script = "visualizer"
               /\ \E k \in 1..Len(df) : NoKnownQuote(df[k].Pair)) =>
              /\ pc' = "error"
              /\ idx' = 0
              /\ open_positions' = <<>>
              /\ closed_positions' = <<>>
    ]_vars

\* app.py has matched a BUY and a SELL of a pair with no known quote
\* currency: the closed lot's base asset is the whole symbol
C14_Witness ==
    /\ script = "app" /\ pc = "matched"
    /\ Len(closed_positions) = 1
    /\ \E k \in 1..Len(df) :
          /\ NoKnownQuote(df[k].Pair)
          /\ df[k].Quote_Currency = UNKNOWN
          /\ closed_positions[1].Base_Currency = df[k].Pair

\* C15: every closed lot the matching loop has emitted has an amount > 0, in
\* every run whose Executed fields all hold a number.
C15_PositiveClosedAmount ==
    (DfConverted /\ WellFormed) =>
        \A k \in 1..Len(closed_positions) : FGt(closed_positions[k].Amount, F(0))

\* C16: queue ordering invariant.  After every processed trade the open dates
\* of each base asset's open lots are non-decreasing from head to tail.
C16_QueueOrdered ==
    \A b \in DOMAIN open_positions :
        \A i, j \in 1..Len(open_positions[b]) :
            i < j => open_positions[b][i].date <= open_positions[b][j].date

\* three BUYs of one asset on two different dates are open, the oldest first
C16_Witness ==
    /\ pc = "loop" /\ idx = MaxTrades + 1
    /\ \E b \in DOMAIN open_positions :
          /\ Len(open_positions[b]) = MaxTrades
          /\ open_positions[b][1].date < open_positions[b][MaxTrades].date

\* the rows among the first n of d that trade base asset b, in order
OnlyBase(d, b, n) == SelectSeq(SubSeq(d, 1, n), LAMBDA row : row.Base_Currency = b)

\* the closed lots of base asset b, in order
ClosedOf(lots, b) == SelectSeq(lots, LAMBDA lot : lot.Base_Currency = b)

\* C17: per-asset independence.  When app.py processes a trade of base asset
\* X, the queue of every other base asset stays as it was, and for every base
\* asset the open lots and the closed lots it then has are those the loop
\* produces from the rows processed so far with the trades of all other
\* assets removed.
C17_PerAssetIndependence ==
    [][(script = "app" /\ InLoop /\ idx' = idx + 1) =>
        /\ \A b \in DOMAIN open_positions :
              b # Row.Base_Currency =>
                  b \in DOMAIN open_positions' /\ open_positions'[b] = open_positions[b]
        /\ \A b \in Bases :
              LET alone == OnlyBase(df, b, idx)
                  result == process_rows(alone, Len(alone))
              IN  /\ Queue(open_positions', b) = Queue(result.open_positions, b)
                  /\ ClosedOf(closed_positions', b) = result.closed_positions
    ]_vars

\* a BUY of a second asset came between the BUY and the SELL of a first one:
\* the first asset has its closed lot, the second its open lot
C17_Witness ==
    /\ script = "app" /\ pc = "matched" /\ Len(df) = MaxTrades
    /\ df[1].Base_Currency # df[2].Base_Currency
    /\ df[2].Side = "BUY"
    /\ Len(closed_positions) = 1
    /\ closed_positions[1].Base_Currency = df[1].Base_Currency
    /\ closed_positions[1].Amount.v > 0
    /\ Len(Queue(open_positions, df[2].Base_Currency)) = 1

\* C18: orphan resolution frame.  A submission appends exactly one record to
\* the manual closed-lot list and leaves the open-position book, the matched
\* closed lots and the orphan list as they were; and once a manual lot
\* exists the book never changes again.
C18_ResolutionFrame ==
    [][/\ manual_missing_operations' # manual_missing_operations =>
              /\ Len(manual_missing_operations') = Len(manual_missing_operations) + 1
              /\ SubSeq(manual_missing_operations', 1, Len(manual_missing_operations))
                    = manual_missing_operations
              /\ open_positions' = open_positions
              /\ closed_positions' = closed_positions
              /\ orphan_sell_orders' = orphan_sell_orders
       /\ manual_missing_operations # <<>> => open_positions' = open_positions
    ]_vars

\* an orphan was resolved in a run that also has a closed lot and an open lot
C18_Witness ==
    /\ Len(manual_missing_operations) = 1
    /\ Len(orphan_sell_orders) = 1
    /\ Len(closed_positions) = 1
    /\ \E b \in DOMAIN open_positions :
          /\ open_positions[b] # <<>>
          /\ Head(open_positions[b]).amount.v > 0
          /\ b # manual_missing_operations[1].Base_Currency

\* C19: statistics are pure reductions.  The statistics step and the
\* aggregation steps after it leave the closed lots as process_orders
\* returned them: no field added, removed or changed.
C19_StatisticsPure ==
    [][(pc = "matched" \/ pc = "stats") => closed_positions' = closed_positions]_vars

\* the sum of the defined entries among the first k of xs
RECURSIVE SumDefined(_, _)
SumDefined(xs, k) ==
    IF k = 0 THEN Q(0, 1)
    ELSE IF xs[k].nan THEN SumDefined(xs, k - 1)
         ELSE QAdd(xs[k], SumDefined(xs, k - 1))

\* the float sum of the first k entries of xs: undefined from the first
\* undefined entry on
RECURSIVE SumFloat(_, _)
SumFloat(xs, k) ==
    IF k = 0 THEN Q(0, 1) ELSE QAdd(xs[k], SumFloat(xs, k - 1))

\* the cumulative profit series is there, one point per closed lot, the
\* points in non-decreasing Close Date order
SeriesInOrder ==
    /\ \A k \in 1..Len(closed_positions) : "Cumulative_Profit" \in DOMAIN closed_positions[k]
    /\ \A i, j \in 1..Len(closed_positions) :
          i < j => closed_positions[i].Close_Date <= closed_positions[j].Close_Date

\* C20 as amended: the cumulative-profit series has one point per closed lot,
\* in non-decreasing Close Date order; the point of a lot whose selected value
\* is defined is the sum of the defined selected values of the lots up to and
\* including it, and the point of a lot whose selected value is undefined is
\* undefined.
C20_CumulativeSeries ==
    pc = "shown" =>
        /\ SeriesInOrder
        /\ \A k \in 1..Len(closed_positions) :
              LET xs == Column(closed_positions, profit_column)
              IN  closed_positions[k].Cumulative_Profit =
                      IF xs[k].nan THEN QNaN ELSE SumDefined(xs, k)

\* C20 as claimed: every point is the running sum of the selected values of
\* the lots up to and including it, the sum being taken either as floats add
\* or over the defined values only, the same way for all points.
C20_CumulativeSeries_RunningSum ==
    pc = "shown" =>
        /\ SeriesInOrder
        /\ LET xs == Column(closed_positions, profit_column)
           IN  \/ \A k \in 1..Len(closed_positions) :
                     closed_positions[k].Cumulative_Profit = SumFloat(xs, k)
               \/ \A k \in 1..Len(closed_positions) :
                     closed_positions[k].Cumulative_Profit = SumDefined(xs, k)

\* two lots closed on different dates at a loss of 100 % each: the series
\* of the Percentage profit type reads -100, -200
C20_Witness ==
    /\ pc = "shown" /\ profit_column = "Profit_Loss_Pct"
    /\ Len(closed_positions) = 2
    /\ closed_positions[1].Close_Date < closed_positions[2].Close_Date
    /\ closed_positions[1].Cumulative_Profit = Q(-100, 1)
    /\ closed_positions[2].Cumulative_Profit = Q(-200, 1)

\* process_orders is over: app.py's has returned its results, visualizer.py's
\* has returned or raised
PassOver == IF script = "app" THEN pc = "matched" ELSE pc \in {"end", "error"}

\* C21: termination.  On every file the matching pass comes to its end, in
\* app.py by returning; and the while loop of a SELL runs at most as many
\* iterations as its asset's queue has lots, each appending one closed lot
\* and either popping the head lot or being the last.
C21_Termination ==
    /\ <>PassOver
    /\ [][(InLoop /\ Row.Side = "SELL" /\ Queue(open_positions, Row.Base_Currency) # <<>>) =>
            LET q == open_positions[Row.Base_Currency]
                r == Consume(q, Row.Executed, Row.Base_Currency, Row.Price, Row.Date)
            IN  /\ r.iterations <= Len(q)
                /\ Len(r.queue) \in {Len(q) - r.iterations, Len(q) - r.iterations + 1}
                /\ pc' = "loop" =>
                      /\ Len(closed_positions') = Len(closed_positions) + r.iterations
                      /\ Len(Queue(open_positions', Row.Base_Currency)) = Len(r.queue)
         ]_vars

\* app.py has returned from a pass whose last SELL ran its loop once per lot
\* of a queue of two lots, the second iteration ending on a lot partly sold
C21_Witness ==
    /\ script = "app" /\ pc = "matched" /\ Len(df) = MaxTrades
    /\ df[MaxTrades].Side = "SELL"
    /\ Len(closed_positions) = 2
    /\ closed_positions[1].Close_Date = df[MaxTrades].Date
    /\ closed_positions[1].Amount.v > 0
    /\ closed_positions[2].Amount.v > 0
    /\ Len(Queue(open_positions, df[MaxTrades].Base_Currency)) = 1
    /\ Head(open_positions[df[MaxTrades].Base_Currency]).amount.v > 0

\* C22: every closed lot of the matching loop was opened no later than it
\* was closed, and the closed lots stand in the list in non-decreasing Close
\* Date order.
C22_ClosedLotDates ==
    /\ \A k \in 1..Len(closed_positions) :
          closed_positions[k].Open_Date <= closed_positions[k].Close_Date
    /\ \A i, j \in 1..Len(closed_positions) :
          i < j => closed_positions[i].Close_Date <= closed_positions[j].Close_Date

\* one lot was sold in two parts, the first on the day it was bought, the
\* second on a later day
C22_Witness ==
    /\ pc = "loop" /\ idx = MaxTrades + 1
    /\ Len(closed_positions) = 2
    /\ closed_positions[1].Open_Date = closed_positions[1].Close_Date
    /\ closed_positions[1].Close_Date < closed_positions[2].Close_Date
    /\ closed_positions[2].Open_Date = closed_positions[1].Open_Date
    /\ closed_positions[1].Amount.v > 0 /\ closed_positions[2].Amount.v > 0

====
